---- MODULE Spec2Model ----
(***************************************************************************)
(* PeerSight: the output-reconstruction pipeline (clean_llm_output,        *)
(* parse_review_text, format_review_dict_to_text) and its callers          *)
(* (generate_review, run).                                                 *)
(*                                                                         *)
(* Text is a sequence of symbols.  A symbol is either one character        *)
(* ("#", " ", "\n", ".", ":") or an atomic word or phrase ("Summary",      *)
(* "Accept", "<think>", "foo").  No word of the alphabet is a substring of *)
(* a concatenation of other symbols, so a substring search or a regular    *)
(* expression of the source matches the characters exactly where the       *)
(* operator below matches the symbols.  Positions are 1-based: Python      *)
(* index i is position i + 1, and Python's -1 ("not found") is 0.          *)
(***************************************************************************)
EXTENDS Integers, Sequences, FiniteSets, TLC

\* ------------------------------------------------------------------------
\* Python string primitives
\* ------------------------------------------------------------------------

NL == "\n"

SP == " "

\* str.isspace for one symbol: the class stripped by str.strip() and
\* matched by \s.
IsSpace(c) == c \in {SP, NL}

Min(S) == CHOOSE x \in S : \A y \in S : x <= y

Max(S) == CHOOSE x \in S : \A y \in S : x >= y

\* s[i:j] of Python with 1-based inclusive bounds; empty when j < i.
Slice(s, i, j) == IF j < i THEN <<>> ELSE SubSeq(s, i, j)

\* str.strip(): remove the whole leading and trailing whitespace runs.
Strip(s) ==
  LET keep == {i \in 1..Len(s) : ~IsSpace(s[i])}
  IN  IF keep = {} THEN <<>> ELSE SubSeq(s, Min(keep), Max(keep))

\* s[p:].startswith(m)
StartsAt(s, p, m) ==
  /\ p >= 1
  /\ p + Len(m) - 1 <= Len(s)
  /\ \A k \in 1..Len(m) : s[p + k - 1] = m[k]

\* str.find(m): position of the first occurrence, 0 when there is none.
Find(s, m) ==
  LET hits == {p \in 1..(Len(s) + 1) : StartsAt(s, p, m)}
  IN  IF hits = {} THEN 0 ELSE Min(hits)

\* Position p is where the regular expression anchor ^ matches under
\* re.MULTILINE: the start of the string or just after a newline.
LineStart(s, p) == p = 1 \/ (p >= 2 /\ p - 1 <= Len(s) /\ s[p - 1] = NL)

\* First position at or after p that does not hold whitespace (Len(s) + 1
\* when the whitespace runs to the end): where a greedy \s* or \s+ stops.
SkipSpace(s, p) ==
  LET stops == {q \in p..Len(s) : ~IsSpace(s[q])}
  IN  IF stops = {} THEN Len(s) + 1 ELSE Min(stops)

\* First position at or after p that holds a newline (Len(s) + 1 when
\* there is none): where a greedy .* stops.
EndOfLine(s, p) ==
  LET stops == {q \in p..Len(s) : s[q] = NL}
  IN  IF stops = {} THEN Len(s) + 1 ELSE Min(stops)

\* str.lower() for one symbol.  Words are atomic, so each capitalised word
\* of the alphabet has its lower-case form as a second symbol.
Lower(c) ==
  CASE c = "Summary" -> "summary"
    [] c = "Recommendation" -> "recommendation"
    [] c = "Note" -> "note"
    [] c = "Accept" -> "accept"
    [] c = "Reject" -> "reject"
    [] c = "Minor" -> "minor"
    [] c = "Major" -> "major"
    [] c = "Revision" -> "revision"
    [] c = "Probably" -> "probably"
    [] c = "--- END REVIEW ---" -> "--- end review ---"
    [] OTHER -> c

LowerStr(s) == [i \in 1..Len(s) |-> Lower(s[i])]

\* str.strip(chars): remove leading and trailing symbols that are in chars.
StripChars(s, chars) ==
  LET keep == {i \in 1..Len(s) : s[i] \notin chars}
  IN  IF keep = {} THEN <<>> ELSE SubSeq(s, Min(keep), Max(keep))

\* The first character of the symbol is a word character (\w).
StartsWord(c) ==
  c \notin {"#", SP, NL, ".", "?", "!", ":", "<think>", "</think>",
            "--- END REVIEW ---", "--- end review ---"}

\* The last character of the symbol is a word character (\w).
EndsWord(c) ==
  c \notin {"#", SP, NL, ".", "?", "!", ":", "<think>", "</think>",
            "--- END REVIEW ---", "--- end review ---",
            "thinking process:", "internal thoughts:", "my reasoning:"}

\* ------------------------------------------------------------------------
\* prompts.py: the section markers and the recommendation vocabulary
\* ------------------------------------------------------------------------

REVIEW_SECTION_SUMMARY == <<"#", "#", SP, "Summary">>

REVIEW_SECTION_STRENGTHS == <<"#", "#", SP, "Strengths">>

REVIEW_SECTION_WEAKNESSES == <<"#", "#", SP, "Weaknesses / Areas for Improvement">>

REVIEW_SECTION_RECOMMENDATION == <<"#", "#", SP, "Recommendation">>

REVIEW_RECOMMENDATION_OPTIONS ==
  { <<"Accept">>, <<"Minor", SP, "Revision">>, <<"Major", SP, "Revision">>,
    <<"Reject">> }

\* ------------------------------------------------------------------------
\* parser.py
\* ------------------------------------------------------------------------

Keys == {"summary", "strengths", "weaknesses", "recommendation"}

\* current_known_header_key = None
NoKey == "None"

known_headers_set ==
  { REVIEW_SECTION_SUMMARY, REVIEW_SECTION_STRENGTHS,
    REVIEW_SECTION_WEAKNESSES, REVIEW_SECTION_RECOMMENDATION }

header_to_key(header) ==
  CASE header = REVIEW_SECTION_SUMMARY -> "summary"
    [] header = REVIEW_SECTION_STRENGTHS -> "strengths"
    [] header = REVIEW_SECTION_WEAKNESSES -> "weaknesses"
    [] header = REVIEW_SECTION_RECOMMENDATION -> "recommendation"
    [] OTHER -> NoKey

\* any_header_pattern = ^\s*(##\s+.*) matches at position p: p is a line
\* start, the whitespace run from p (newlines included) is followed by "##"
\* and at least one whitespace symbol.
HeaderMatchAt(s, p) ==
  /\ LineStart(s, p)
  /\ LET q == SkipSpace(s, p)
     IN  /\ StartsAt(s, q, <<"#", "#">>)
         /\ q + 2 <= Len(s)
         /\ IsSpace(s[q + 2])

\* Where the captured group (##\s+.*) of the match at p starts.
HeaderGroupStart(s, p) == SkipSpace(s, p)

\* One past the end of the match at p: \s+ takes the whole whitespace run
\* after "##" (newlines included), .* the rest of the line it stops on.
HeaderMatchEnd(s, p) == EndOfLine(s, SkipSpace(s, SkipSpace(s, p) + 2))

\* re.split(any_header_pattern, s[pos:], flags=re.MULTILINE) with one
\* capturing group: content, header, content, ..., content.
RECURSIVE SplitFrom(_, _)
SplitFrom(s, pos) ==
  LET starts == {p \in pos..Len(s) : HeaderMatchAt(s, p)}
  IN  IF starts = {} THEN << Slice(s, pos, Len(s)) >>
      ELSE LET p == Min(starts)
           IN  << Slice(s, pos, p - 1),
                  Slice(s, HeaderGroupStart(s, p), HeaderMatchEnd(s, p) - 1) >>
               \o SplitFrom(s, HeaderMatchEnd(s, p))

re_split(s) == SplitFrom(s, 1)

\* re.match(any_header_pattern, part.strip()) is not None
is_header_line(part) ==
  LET t == Strip(part)
  IN  /\ Len(t) >= 3
      /\ t[1] = "#"
      /\ t[2] = "#"
      /\ IsSpace(t[3])

EmptyData == [k \in Keys |-> <<>>]

\* Mutant of ProcessParts: an unknown header leaves the current section in
\* place.
RECURSIVE ProcessParts_keep(_, _, _, _)
ProcessParts_keep(parts, i, cur, data) ==
  IF i > Len(parts) THEN data
  ELSE LET part == parts[i]
           header_text == Strip(part)
       IN  IF is_header_line(part) /\ header_text \in known_headers_set
             THEN ProcessParts_keep(parts, i + 1, header_to_key(header_text),
                                    data)
           ELSE IF is_header_line(part)
             THEN ProcessParts_keep(parts, i + 1, cur, data)
           ELSE IF cur # NoKey
             THEN ProcessParts_keep(parts, i + 1, cur,
                    [data EXCEPT ![cur] = @ \o Strip(part) \o <<NL>>])
           ELSE ProcessParts_keep(parts, i + 1, cur, data)

\* The loop over parts[i..]: cur is current_known_header_key, data is
\* parsed_data.
RECURSIVE ProcessParts(_, _, _, _)
ProcessParts(parts, i, cur, data) ==
  IF i > Len(parts) THEN data
  ELSE LET part == parts[i]
           header_text == Strip(part)
       IN  IF is_header_line(part) /\ header_text \in known_headers_set
             THEN ProcessParts(parts, i + 1, header_to_key(header_text), data)
           ELSE IF is_header_line(part)
             THEN ProcessParts(parts, i + 1, NoKey, data)
           ELSE IF cur # NoKey
             THEN ProcessParts(parts, i + 1, cur,
                    [data EXCEPT ![cur] = @ \o Strip(part) \o <<NL>>])
           ELSE ProcessParts(parts, i + 1, cur, data)

\* parsed_data after the loop.
Segment(review_text) ==
  LET parts == re_split(review_text)
      start_index == IF Strip(parts[1]) = <<>> THEN 2 ELSE 1
  IN  ProcessParts(parts, start_index, NoKey, EmptyData)

\* processed_recommendation in valid_recommendations
recommendation_valid(recommendation) ==
  StripChars(LowerStr(recommendation), {".", "?", "!", SP})
    \in {LowerStr(opt) : opt \in REVIEW_RECOMMENDATION_OPTIONS}

\* Mutant of Finalize: the recommendation is stored in its normalised form
\* (lower case, punctuation stripped).
Finalize_normalised(data) ==
  [k \in Keys |->
     IF k = "recommendation"
       THEN StripChars(LowerStr(Strip(data[k])), {".", "?", "!", SP})
     ELSE Strip(data[k])]

\* final_parsed_data: every value trimmed (the recommendation is stored as
\* trimmed in both branches of its validation).
Finalize(data) == [k \in Keys |-> Strip(data[k])]

\* Mutant of RequiredKeys: the final check tests another section.
RequiredKeys_summary == {"summary"}

\* The final check of the source: which sections it tests for content.
RequiredKeys == {"recommendation"}

\* Mutant of parse_review_text: no check for empty or all-whitespace input
\* before the segmentation.
parse_review_text_unguarded(review_text) ==
  LET final == Finalize(Segment(review_text))
      warn == ~recommendation_valid(final["recommendation"])
      missing == {k \in RequiredKeys : final[k] = <<>>}
  IN  IF missing # {}
        THEN [ok |-> FALSE, err |-> "MissingSection", named |-> missing,
              sections |-> final, warn |-> warn]
      ELSE [ok |-> TRUE, err |-> "", named |-> {},
            sections |-> final, warn |-> warn]

\* parse_review_text.  ok = FALSE is the None return; err is the logged
\* error and named the section keys that error message names; sections is
\* the segmentation the decision was taken on (data when ok); warn is the
\* invalid-recommendation warning.
parse_review_text(review_text) ==
  IF Strip(review_text) = <<>>
    THEN [ok |-> FALSE, err |-> "EmptyInput", named |-> {},
          sections |-> EmptyData, warn |-> FALSE]
  ELSE LET final == Finalize(Segment(review_text))
           warn == ~recommendation_valid(final["recommendation"])
           missing == {k \in RequiredKeys : final[k] = <<>>}
       IN  IF missing # {}
             THEN [ok |-> FALSE, err |-> "MissingSection", named |-> missing,
                   sections |-> final, warn |-> warn]
           ELSE [ok |-> TRUE, err |-> "", named |-> {},
                 sections |-> final, warn |-> warn]

\* ------------------------------------------------------------------------
\* utils.py: clean_llm_output
\* ------------------------------------------------------------------------

\* One alternative of an end pattern: anch is a leading ^\s*, lit the
\* literal text, wb a surrounding pair of \b.
Pat(anch, lit, wb) == [anch |-> anch, lit |-> lit, wb |-> wb]

\* The alternatives both lists share: the reasoning-leak phrases, the think
\* tags (<\/?think> is two literals) and the line-start "Note:".
common_end_markers ==
  { Pat(FALSE, <<"<think>">>, FALSE),
    Pat(FALSE, <<"</think>">>, FALSE),
    Pat(FALSE, <<"alright, let me">>, FALSE),
    Pat(FALSE, <<"okay, so i need">>, FALSE),
    Pat(FALSE, <<"okay, so i've got">>, FALSE),
    Pat(FALSE, <<"here's my thought process">>, FALSE),
    Pat(FALSE, <<"step-by-step">>, TRUE),
    Pat(FALSE, <<"thinking process:">>, FALSE),
    Pat(FALSE, <<"internal thoughts:">>, FALSE),
    Pat(FALSE, <<"my reasoning:">>, FALSE),
    Pat(FALSE, <<"please note that">>, FALSE),
    Pat(FALSE, <<"--- END REVIEW ---">>, FALSE),
    Pat(TRUE, <<"Note", ":">>, FALSE) }

\* next_section_marker = ^\s*##<space>
next_section_marker == Pat(TRUE, <<"#", "#", SP>>, FALSE)

\* Mutant of fallback_end_markers: the think tags are missing from the list.
fallback_end_markers_nothink ==
  common_end_markers
    \ {Pat(FALSE, <<"<think>">>, FALSE), Pat(FALSE, <<"</think>">>, FALSE)}

\* end_pattern of clean_llm_output: next_section_marker | fallback_end_markers
fallback_end_markers == common_end_markers

structure_end_pattern == {next_section_marker} \cup fallback_end_markers

\* end_pattern of _clean_with_regex_fallback: the list above plus the
\* repeated Summary header and the line-start "Summary:".
end_markers ==
  common_end_markers
    \cup { Pat(TRUE, <<"#", "#", SP, "Summary">>, FALSE),
           Pat(TRUE, <<"Summary", ":">>, FALSE) }

\* s[p:].startswith(m) under re.IGNORECASE
StartsAtI(s, p, m) ==
  /\ p >= 1
  /\ p + Len(m) - 1 <= Len(s)
  /\ \A k \in 1..Len(m) : Lower(s[p + k - 1]) = Lower(m[k])

\* The alternative pat matches with its match starting at position p
\* (re.IGNORECASE | re.MULTILINE).
PatMatchAt(s, p, pat) ==
  LET q == IF pat.anch THEN SkipSpace(s, p) ELSE p
      e == q + Len(pat.lit)
  IN  /\ pat.anch => LineStart(s, p)
      /\ StartsAtI(s, q, pat.lit)
      /\ pat.wb => /\ (q = 1 \/ ~EndsWord(s[q - 1]))
                   /\ (e > Len(s) \/ ~StartsWord(s[e]))

\* Mutant of Search: the last match is taken instead of the first.
Search_last(s, pos, pats) ==
  LET hits == {p \in pos..Len(s) : \E pat \in pats : PatMatchAt(s, p, pat)}
  IN  IF hits = {} THEN 0 ELSE Max(hits)

\* pattern.search(s, pos).start(): the leftmost position at or after pos
\* where some alternative matches, 0 when there is no match.
Search(s, pos, pats) ==
  LET hits == {p \in pos..Len(s) : \E pat \in pats : PatMatchAt(s, p, pat)}
  IN  IF hits = {} THEN 0 ELSE Min(hits)

\* Mutant of clean_with_regex_fallback: the search starts at the Summary
\* marker itself, not after it.
clean_with_regex_fallback_from0(raw_output) ==
  LET start_marker == REVIEW_SECTION_SUMMARY
      start_index == Find(raw_output, start_marker)
  IN  IF start_index = 0 THEN Strip(raw_output)
      ELSE LET review_text == Slice(raw_output, start_index, Len(raw_output))
               match == Search(review_text, 1, end_markers)
           IN  IF match # 0 THEN Strip(Slice(review_text, 1, match - 1))
               ELSE Strip(review_text)

\* _clean_with_regex_fallback
clean_with_regex_fallback(raw_output) ==
  LET start_marker == REVIEW_SECTION_SUMMARY
      start_index == Find(raw_output, start_marker)
  IN  IF start_index = 0 THEN Strip(raw_output)
      ELSE LET review_text == Slice(raw_output, start_index, Len(raw_output))
               search_start_pos == Len(start_marker) + 1
               match == Search(review_text, search_start_pos, end_markers)
           IN  IF match # 0 THEN Strip(Slice(review_text, 1, match - 1))
               ELSE Strip(review_text)

\* Mutant of clean_llm_output: without the start marker the raw output is
\* returned as it is, not trimmed.
clean_llm_output_untrimmed(raw_output) ==
  LET start_index == Find(raw_output, REVIEW_SECTION_SUMMARY)
      review_potential == Slice(raw_output, start_index, Len(raw_output))
      recommendation_start_index_rel ==
        Find(review_potential, REVIEW_SECTION_RECOMMENDATION)
      match == Search(review_potential,
                      recommendation_start_index_rel
                        + Len(REVIEW_SECTION_RECOMMENDATION),
                      structure_end_pattern)
  IN  IF start_index = 0 THEN raw_output
      ELSE IF recommendation_start_index_rel = 0
        THEN clean_with_regex_fallback(raw_output)
      ELSE IF match # 0 THEN Strip(Slice(review_potential, 1, match - 1))
      ELSE Strip(review_potential)

\* Mutant of clean_llm_output: without the start marker there is no result
\* (the function gives up instead of returning text).
clean_llm_output_strict(raw_output) ==
  LET start_index == Find(raw_output, REVIEW_SECTION_SUMMARY)
      review_potential == Slice(raw_output, start_index, Len(raw_output))
      recommendation_start_index_rel ==
        Find(review_potential, REVIEW_SECTION_RECOMMENDATION)
      match == Search(review_potential,
                      recommendation_start_index_rel
                        + Len(REVIEW_SECTION_RECOMMENDATION),
                      structure_end_pattern)
  IN  IF start_index = 0 THEN <<"<None>">>
      ELSE IF recommendation_start_index_rel = 0
        THEN clean_with_regex_fallback(raw_output)
      ELSE IF match # 0 THEN Strip(Slice(review_potential, 1, match - 1))
      ELSE Strip(review_potential)

\* str.rfind(m): position of the last occurrence, 0 when there is none.
FindLast(s, m) ==
  LET hits == {p \in 1..(Len(s) + 1) : StartsAt(s, p, m)}
  IN  IF hits = {} THEN 0 ELSE Max(hits)

\* Mutant of clean_llm_output: the review starts at the last Summary marker,
\* not at the first.
clean_llm_output_rfind(raw_output) ==
  LET start_index == FindLast(raw_output, REVIEW_SECTION_SUMMARY)
      review_potential == Slice(raw_output, start_index, Len(raw_output))
      recommendation_start_index_rel ==
        Find(review_potential, REVIEW_SECTION_RECOMMENDATION)
      match == Search(review_potential,
                      recommendation_start_index_rel
                        + Len(REVIEW_SECTION_RECOMMENDATION),
                      structure_end_pattern)
  IN  IF start_index = 0 THEN Strip(raw_output)
      ELSE IF recommendation_start_index_rel = 0
        THEN clean_with_regex_fallback(raw_output)
      ELSE IF match # 0 THEN Strip(Slice(review_potential, 1, match - 1))
      ELSE Strip(review_potential)

\* Mutant of clean_llm_output: the end boundary is searched from the end of
\* the Summary marker, not from the end of the Recommendation marker.
clean_llm_output_earlysearch(raw_output) ==
  LET start_index == Find(raw_output, REVIEW_SECTION_SUMMARY)
      review_potential == Slice(raw_output, start_index, Len(raw_output))
      recommendation_start_index_rel ==
        Find(review_potential, REVIEW_SECTION_RECOMMENDATION)
      match == Search(review_potential, Len(REVIEW_SECTION_SUMMARY) + 1,
                      fallback_end_markers)
  IN  IF start_index = 0 THEN Strip(raw_output)
      ELSE IF recommendation_start_index_rel = 0
        THEN clean_with_regex_fallback(raw_output)
      ELSE IF match # 0 THEN Strip(Slice(review_potential, 1, match - 1))
      ELSE Strip(review_potential)

\* clean_llm_output
clean_llm_output(raw_output) ==
  LET start_marker == REVIEW_SECTION_SUMMARY
      start_index == Find(raw_output, start_marker)
  IN  IF start_index = 0 THEN Strip(raw_output)
      ELSE LET review_potential ==
                 Slice(raw_output, start_index, Len(raw_output))
               recommendation_marker == REVIEW_SECTION_RECOMMENDATION
               recommendation_start_index_rel ==
                 Find(review_potential, recommendation_marker)
           IN  IF recommendation_start_index_rel = 0
                 THEN clean_with_regex_fallback(raw_output)
               ELSE LET search_start_pos ==
                          recommendation_start_index_rel
                            + Len(recommendation_marker)
                        match == Search(review_potential, search_start_pos,
                                        structure_end_pattern)
                        end_index == IF match # 0 THEN match - 1
                                     ELSE Len(review_potential)
                    IN  Strip(Slice(review_potential, 1, end_index))

\* The final sanity check of clean_llm_output on its cleaned_output: which
\* of its two warnings is logged ("none" when neither is).
sanity_check(cleaned_output) ==
  IF ~StartsAt(cleaned_output, 1, REVIEW_SECTION_SUMMARY)
    THEN "no_start_marker"
  ELSE IF Find(cleaned_output, REVIEW_SECTION_RECOMMENDATION) = 0
    THEN "recommendation_missing"
  ELSE "none"

\* ------------------------------------------------------------------------
\* main.py: format_review_dict_to_text
\* ------------------------------------------------------------------------

\* "\n\n".join(strs)
RECURSIVE JoinBlank(_)
JoinBlank(strs) ==
  IF Len(strs) = 0 THEN <<>>
  ELSE IF Len(strs) = 1 THEN strs[1]
  ELSE strs[1] \o <<NL, NL>> \o JoinBlank(Tail(strs))

\* Mutant of format_review_dict_to_text: the Strengths and Weaknesses
\* headers are emitted in each other's place.
format_review_dict_to_text_swapped(review_dict) ==
  LET parts == << REVIEW_SECTION_SUMMARY, review_dict["summary"],
                  REVIEW_SECTION_WEAKNESSES, review_dict["strengths"],
                  REVIEW_SECTION_STRENGTHS, review_dict["weaknesses"],
                  REVIEW_SECTION_RECOMMENDATION,
                  review_dict["recommendation"] >>
  IN  JoinBlank([i \in 1..Len(parts) |-> Strip(parts[i])])

format_review_dict_to_text(review_dict) ==
  LET parts == << REVIEW_SECTION_SUMMARY, review_dict["summary"],
                  REVIEW_SECTION_STRENGTHS, review_dict["strengths"],
                  REVIEW_SECTION_WEAKNESSES, review_dict["weaknesses"],
                  REVIEW_SECTION_RECOMMENDATION,
                  review_dict["recommendation"] >>
  IN  JoinBlank([i \in 1..Len(parts) |-> Strip(parts[i])])

\* ------------------------------------------------------------------------
\* Inputs: texts are concatenations of a few chunks
\* ------------------------------------------------------------------------

\* The most chunks one generated text is made of.
MaxBlocks == 4

Chunk(id) ==
  CASE id = "Sum" -> REVIEW_SECTION_SUMMARY \o <<NL, "foo", NL>>
    [] id = "Str" -> REVIEW_SECTION_STRENGTHS \o <<NL, "bar", NL>>
    [] id = "Weak" -> REVIEW_SECTION_WEAKNESSES \o <<NL, "baz", NL>>
    [] id = "Rec" -> REVIEW_SECTION_RECOMMENDATION \o <<NL, "Accept", NL>>
    [] id = "RecE" -> REVIEW_SECTION_RECOMMENDATION \o <<NL>>
    [] id = "RecX" -> REVIEW_SECTION_RECOMMENDATION \o <<SP, "Accept", NL>>
    [] id = "RecV" -> REVIEW_SECTION_RECOMMENDATION \o <<NL, "Accept">>
    [] id = "Body" -> REVIEW_SECTION_STRENGTHS \o <<NL, "bar", NL>>
                        \o REVIEW_SECTION_WEAKNESSES \o <<NL, "baz", NL>>
    [] id = "Disc" -> <<"#", "#", SP, "Discussion", NL, "qux", NL>>
    [] id = "Line" -> <<"Sure", NL>>
    [] id = "Hash" -> <<"#", "#", NL>>
    [] id = "Blank" -> <<SP, NL>>
    [] id = "Pre" -> <<"Sure", SP>>
    [] id = "NL" -> <<NL>>
    [] id = "Think" -> <<"<think>", "hmm", "</think>">>
    [] id = "Note" -> <<"Note", ":", SP, "hmm">>
    [] id = "SumC" -> <<"Summary", ":">>
    [] id = "vAccept" -> <<"Accept">>
    [] id = "vReject" -> <<"reject">>
    [] id = "vMinor" -> <<"Minor", SP, "Revision">>
    [] id = "vProb" -> <<"Probably">>
    [] id = "SP" -> <<SP>>
    [] id = "Dot" -> <<".">>
    [] id = "Bang" -> <<"!">>

RECURSIVE Render(_)
Render(ids) ==
  IF Len(ids) = 0 THEN <<>> ELSE Chunk(Head(ids)) \o Render(Tail(ids))

\* Sequences of at most n elements of S.
RECURSIVE SeqsUpTo(_, _)
SeqsUpTo(S, n) ==
  IF n = 0 THEN {<<>>}
  ELSE LET shorter == SeqsUpTo(S, n - 1)
       IN  shorter \cup {Append(q, x) : q \in shorter, x \in S}

\* Chunks of the texts handed to parse_review_text.
ParseChunks ==
  {"Sum", "Str", "Weak", "Rec", "RecE", "RecX", "Disc", "Line", "Hash",
   "Blank"}

\* Chunks of the raw model outputs handed to clean_llm_output.
CleanChunks ==
  {"Pre", "Sum", "Body", "RecV", "Hash", "NL", "Think", "Note", "SumC"}

\* ------------------------------------------------------------------------
\* State
\* ------------------------------------------------------------------------

VARIABLES
  pc,        \* position of the run
  blocks,    \* the chunk names the input text was made of
  raw,       \* raw_output / review_text / raw_review_output: the input text
  cleaned,   \* clean_llm_output(raw)
  recleaned, \* clean_llm_output(cleaned)
  parsed,    \* result of parse_review_text
  review,    \* a structured review handed to format_review_dict_to_text
  env,       \* command line and environment of one run
  stdout,    \* review content printed to the console
  file,      \* content of the output file
  ret,       \* return value of generate_review ("none" before it returns,
             \* "raised" when it raised)
  exitcode,  \* exit code of run (-1 before it exits)
  fs,        \* the file system around one path of utils.py's file functions
  io         \* arguments and results of write_text_file and read_text_file

fsVars == <<fs, io>>

runVars == <<env, stdout, file, ret, exitcode, fsVars>>

vars == <<pc, blocks, raw, cleaned, recleaned, parsed, review, runVars>>

\* A text that was not produced (yet).
None == <<"<None>">>

\* parse_review_text has not run.
NotParsed ==
  [ok |-> FALSE, err |-> "NotRun", named |-> {}, sections |-> EmptyData,
   warn |-> FALSE]

\* No command line: the function under test is called directly.
NoEnv ==
  [entry |-> "call", args |-> "review", paper |-> TRUE, llm |-> "ok",
   output_path |-> FALSE, json |-> FALSE, writable |-> TRUE]

\* No file function is called.
NoFS ==
  /\ fs = [path |-> "none"]
  /\ io = [call |-> "none"]

NoRun ==
  /\ env = NoEnv
  /\ stdout = None
  /\ file = None
  /\ ret = "none"
  /\ exitcode = -1
  /\ NoFS

\* ------------------------------------------------------------------------
\* SpecParse: parse_review_text on generated texts
\* ------------------------------------------------------------------------

InitParse ==
  /\ blocks \in SeqsUpTo(ParseChunks, MaxBlocks)
  /\ raw = Render(blocks)
  /\ pc = "text"
  /\ cleaned = None
  /\ recleaned = None
  /\ parsed = NotParsed
  /\ review = EmptyData
  /\ NoRun

\* parser.parse_review_text(raw)
ParseText ==
  /\ pc = "text"
  /\ parsed' = parse_review_text(raw)
  /\ pc' = "parsed"
  /\ UNCHANGED <<blocks, raw, cleaned, recleaned, review, runVars>>

NextParse == ParseText

SpecParse == InitParse /\ [][NextParse]_vars

\* ------------------------------------------------------------------------
\* SpecClean: clean_llm_output on generated raw outputs, then the parser
\* ------------------------------------------------------------------------

InitClean ==
  /\ blocks \in SeqsUpTo(CleanChunks, MaxBlocks)
  /\ raw = Render(blocks)
  /\ pc = "raw"
  /\ cleaned = None
  /\ recleaned = None
  /\ parsed = NotParsed
  /\ review = EmptyData
  /\ NoRun

\* cleaned_review_text = utils.clean_llm_output(raw_review_output)
Clean ==
  /\ pc = "raw"
  /\ cleaned' = clean_llm_output(raw)
  /\ pc' = "cleaned"
  /\ UNCHANGED <<blocks, raw, recleaned, parsed, review, runVars>>

\* clean_llm_output applied to its own result
Reclean ==
  /\ pc = "cleaned"
  /\ recleaned' = clean_llm_output(cleaned)
  /\ pc' = "recleaned"
  /\ UNCHANGED <<blocks, raw, cleaned, parsed, review, runVars>>

\* parsed_review = parser.parse_review_text(cleaned_review_text)
ParseCleaned ==
  /\ pc = "cleaned"
  /\ parsed' = parse_review_text(cleaned)
  /\ pc' = "parsed"
  /\ UNCHANGED <<blocks, raw, cleaned, recleaned, review, runVars>>

NextClean == Clean \/ Reclean \/ ParseCleaned

SpecClean == InitClean /\ [][NextClean]_vars

\* ------------------------------------------------------------------------
\* SpecMark: clean_llm_output on raw outputs with repeated, misplaced and
\* buried markers
\* ------------------------------------------------------------------------

\* The most chunks one raw output of SpecMark is made of.
MaxMarkBlocks == 4

\* A preamble, the two markers the cleaning looks for, extra headers, noise
\* (a think tag, a line starting with "Note:" or "Summary:").
MarkChunks == {"Pre", "Sum", "RecV", "Body", "Think", "Note", "SumC", "NL"}

InitMark ==
  /\ blocks \in SeqsUpTo(MarkChunks, MaxMarkBlocks)
  /\ raw = Render(blocks)
  /\ pc = "raw"
  /\ cleaned = None
  /\ recleaned = None
  /\ parsed = NotParsed
  /\ review = EmptyData
  /\ NoRun

NextMark == Clean

SpecMark == InitMark /\ [][NextMark]_vars

\* ------------------------------------------------------------------------
\* SpecRec: parse_review_text on reviews with generated recommendation text
\* ------------------------------------------------------------------------

\* The most pieces one generated recommendation text is made of.
MaxRecLen == 4

\* Pieces of the text written under the Recommendation header.
RecPieces ==
  {"vAccept", "vReject", "vMinor", "vProb", "SP", "Dot", "Bang", "NL"}

\* What comes before the recommendation text: a Summary section and the
\* Recommendation header on a line of its own.
RecPrefix == Chunk("Sum") \o REVIEW_SECTION_RECOMMENDATION \o <<NL>>

InitRec ==
  /\ blocks \in SeqsUpTo(RecPieces, MaxRecLen)
  /\ raw = RecPrefix \o Render(blocks)
  /\ pc = "text"
  /\ cleaned = None
  /\ recleaned = None
  /\ parsed = NotParsed
  /\ review = EmptyData
  /\ NoRun

NextRec == ParseText

SpecRec == InitRec /\ [][NextRec]_vars

\* ------------------------------------------------------------------------
\* SpecRound: format_review_dict_to_text, then the parser on its result
\* ------------------------------------------------------------------------

\* The most pieces one generated field value is made of.
MaxFieldLen == 3

Pieces == { <<"foo">>, <<SP>>, <<NL>>, <<"#", "#">> }

RECURSIVE Concat(_)
Concat(strs) ==
  IF Len(strs) = 0 THEN <<>> ELSE Head(strs) \o Concat(Tail(strs))

\* Field values: one to MaxFieldLen pieces.
FieldVals == {Concat(q) : q \in SeqsUpTo(Pieces, MaxFieldLen)} \ {<<>>}

\* Values of the fields that are not varied: plain, a bare "##", untrimmed.
SmallVals == { <<"bar">>, <<"#", "#">>, <<"bar", SP>> }

ContentKeys == {"summary", "strengths", "weaknesses"}

\* The reviews handed to format_review_dict_to_text: one content field takes
\* every generated value, the others a few, the recommendation is one of
\* REVIEW_RECOMMENDATION_OPTIONS.
ReviewInput(varied, v, other1, other2, rec) ==
  LET rest == ContentKeys \ {varied}
      first == CHOOSE k \in rest : TRUE
  IN  [k \in Keys |-> IF k = varied THEN v
                      ELSE IF k = "recommendation" THEN rec
                      ELSE IF k = first THEN other1
                      ELSE other2]

InitRound ==
  /\ \E varied \in ContentKeys, v \in FieldVals, other1 \in SmallVals,
        other2 \in SmallVals, rec \in REVIEW_RECOMMENDATION_OPTIONS :
       review = ReviewInput(varied, v, other1, other2, rec)
  /\ blocks = <<>>
  /\ raw = None
  /\ pc = "review"
  /\ cleaned = None
  /\ recleaned = None
  /\ parsed = NotParsed
  /\ NoRun

\* output_content = format_review_dict_to_text(result_data)
FormatReview ==
  /\ pc = "review"
  /\ raw' = format_review_dict_to_text(review)
  /\ pc' = "text"
  /\ UNCHANGED <<blocks, cleaned, recleaned, parsed, review, runVars>>

NextRound == FormatReview \/ ParseText

SpecRound == InitRound /\ [][NextRound]_vars

\* ------------------------------------------------------------------------
\* SpecPipeline: core.generate_review and main.run
\* ------------------------------------------------------------------------

\* The most chunks one model response is made of.
MaxResponse == 2

\* Chunks of the model responses of the runs.
PipeChunks == {"Pre", "Sum", "Body", "RecV", "NL"}

\* What can go wrong with the request of query_ollama: requests.post
\* raises Timeout or ConnectionError, raise_for_status raises HTTPError,
\* response.json() raises on a body that is not JSON (an empty body
\* included), the JSON has no "response" key, or its "response" is not a
\* string.
LLMFaults == {"timeout", "connection", "http", "json", "nokey", "nostring"}

\* entry: generate_review of core.py called directly ("core"), or run of
\* main.py ("cli"); args: the command line asks for a review ("review"),
\* is rejected by the argument parser ("usage_error"), or asks for the
\* version or the help text ("version"); paper: read_text_file returns the
\* paper; llm: "ok" when
\* the endpoint answers with JSON that holds a response text, the fault
\* otherwise; output_path: -o is given; json: --json is given; writable:
\* write_text_file succeeds.
Envs ==
  { e \in [entry : {"core", "cli"},
           args : {"review", "usage_error", "version"}, paper : BOOLEAN,
           llm : {"ok"} \cup LLMFaults,
           output_path : BOOLEAN, json : BOOLEAN, writable : BOOLEAN] :
      /\ e.entry = "core" => (~e.json /\ e.args = "review")
      /\ ~e.output_path => e.writable }

InitPipeline ==
  /\ env \in Envs
  /\ blocks \in SeqsUpTo(PipeChunks, MaxResponse)
  /\ raw = None
  /\ pc = "start"
  /\ cleaned = None
  /\ recleaned = None
  /\ parsed = NotParsed
  /\ review = EmptyData
  /\ stdout = None
  /\ file = None
  /\ ret = "none"
  /\ exitcode = -1
  /\ NoFS

\* args = parser.parse_args() of run: argparse ends the run itself, with
\* exit code 2 after a usage error and with 0 after printing the version or
\* the help text (sys.exit raises SystemExit, which the except Exception
\* branch of run does not take).
ParseArgsExit ==
  /\ pc = "start"
  /\ env.entry = "cli"
  /\ env.args # "review"
  /\ exitcode' = IF env.args = "usage_error" THEN 2 ELSE 0
  /\ pc' = "exited"
  /\ UNCHANGED <<blocks, raw, cleaned, recleaned, parsed, review, env, stdout,
                 file, ret>>
  /\ UNCHANGED fsVars

\* generate_review returns: to its caller when called directly, to run
\* otherwise.
Returned == IF env.entry = "cli" THEN "returned" ELSE "done"

\* 1. paper_content = utils.read_text_file(paper_path)
ReadPaper ==
  /\ pc = "start"
  /\ env.args = "review"
  /\ IF env.paper
       THEN /\ pc' = "read"
            /\ ret' = ret
       ELSE /\ pc' = Returned
            /\ ret' = "False"
  /\ UNCHANGED <<blocks, raw, cleaned, recleaned, parsed, review, env, stdout,
                 file, exitcode>>
  /\ UNCHANGED fsVars

\* Mutant of query_ollama: the response text is returned as received, not
\* trimmed.
query_ollama_untrimmed ==
  IF env.llm = "ok" THEN Render(blocks) ELSE None

\* query_ollama: response_data["response"].strip(); None when the key is
\* missing and in every except branch (the last one, except Exception,
\* takes the AttributeError of a response that is not a string).
query_ollama ==
  CASE env.llm = "ok" -> Strip(Render(blocks))
    [] env.llm = "nokey" -> None
    [] env.llm = "connection" -> None
    [] env.llm = "timeout" -> None
    [] env.llm \in {"http", "json"} -> None
    [] env.llm = "nostring" -> None

\* 3. raw_review_output = llm_client.query_ollama(...)
QueryLLM ==
  /\ pc = "read"
  /\ LET raw_review_output == query_ollama
     IN  IF raw_review_output = None \/ raw_review_output = <<>>
           THEN /\ pc' = Returned
                /\ ret' = "False"
                /\ raw' = raw_review_output
           ELSE /\ pc' = "raw"
                /\ ret' = ret
                /\ raw' = raw_review_output
  /\ UNCHANGED <<blocks, cleaned, recleaned, parsed, review, env, stdout,
                 file, exitcode>>
  /\ UNCHANGED fsVars

\* 4. cleaned_review_text = utils.clean_llm_output(raw_review_output)
CleanStep ==
  /\ pc = "raw"
  /\ cleaned' = clean_llm_output(raw)
  /\ IF cleaned' = <<>>
       THEN /\ pc' = Returned
            /\ ret' = "False"
       ELSE /\ pc' = "cleaned"
            /\ ret' = ret
  /\ UNCHANGED <<blocks, raw, recleaned, parsed, review, env, stdout, file,
                 exitcode>>
  /\ UNCHANGED fsVars

\* Mutant of OutputReview: a parse failure makes generate_review return
\* False although the text is emitted.
OutputReview_parsegate ==
  /\ pc = "parsed"
  /\ env.entry = "core"
  /\ LET review_to_output == cleaned
         success == env.writable
     IN  /\ file' = IF env.output_path /\ success THEN review_to_output
                    ELSE file
         /\ stdout' = IF env.output_path THEN stdout ELSE review_to_output
         /\ ret' = IF (env.output_path /\ ~success) \/ ~parsed.ok
                     THEN "False" ELSE "True"
  /\ pc' = "done"
  /\ UNCHANGED <<blocks, raw, cleaned, recleaned, parsed, review, env,
                 exitcode>>
  /\ UNCHANGED fsVars

\* 6. Output Review of core.py: the cleaned text goes to the file or to the
\* console, whatever the parser said.
OutputReview ==
  /\ pc = "parsed"
  /\ env.entry = "core"
  /\ LET review_to_output == cleaned
         success == env.writable
     IN  /\ file' = IF env.output_path /\ success THEN review_to_output
                    ELSE file
         /\ stdout' = IF env.output_path THEN stdout ELSE review_to_output
         /\ ret' = IF env.output_path /\ ~success THEN "False" ELSE "True"
  /\ pc' = "done"
  /\ UNCHANGED <<blocks, raw, cleaned, recleaned, parsed, review, env,
                 exitcode>>
  /\ UNCHANGED fsVars

\* The generate_review that run calls returns (success, result_data):
\* result_data is the parsed record, or the cleaned text when parsing
\* failed; it writes and prints nothing itself.
CoreReturn ==
  /\ pc = "parsed"
  /\ env.entry = "cli"
  /\ ret' = "True"
  /\ pc' = "returned"
  /\ UNCHANGED <<blocks, raw, cleaned, recleaned, parsed, review, env, stdout,
                 file, exitcode>>
  /\ UNCHANGED fsVars

\* The generate_review that run calls raises an unexpected exception.
CoreRaise ==
  /\ pc = "start"
  /\ env.entry = "cli"
  /\ env.args = "review"
  /\ ret' = "raised"
  /\ pc' = "returned"
  /\ UNCHANGED <<blocks, raw, cleaned, recleaned, parsed, review, env, stdout,
                 file, exitcode>>
  /\ UNCHANGED fsVars

\* json.dumps(result_data, indent=4)
json_dumps(d) ==
  <<"{", "summary", ":">> \o d["summary"]
    \o <<",", "strengths", ":">> \o d["strengths"]
    \o <<",", "weaknesses", ":">> \o d["weaknesses"]
    \o <<",", "recommendation", ":">> \o d["recommendation"] \o <<"}">>

\* output_content of run: None when the requested format cannot be
\* produced from result_data.
output_content ==
  IF env.json
    THEN IF parsed.ok THEN json_dumps(parsed.sections) ELSE None
    ELSE IF parsed.ok THEN format_review_dict_to_text(parsed.sections)
         ELSE cleaned

\* Mutant of RunOutput: the result of write_text_file is not looked at.
RunOutput_nowritecheck ==
  /\ pc = "returned"
  /\ LET success == ret = "True" /\ output_content # None
         write_success == env.writable
     IN  /\ file' = IF success /\ env.output_path /\ write_success
                      THEN output_content ELSE file
         /\ stdout' = IF success /\ ~env.output_path
                        THEN output_content ELSE stdout
         /\ exitcode' = IF ret = "raised" THEN 2
                         ELSE IF success THEN 0
                         ELSE 1
  /\ pc' = "exited"
  /\ UNCHANGED <<blocks, raw, cleaned, recleaned, parsed, review, env, ret>>
  /\ UNCHANGED fsVars

\* run, from the return of generate_review to sys.exit; the except Exception
\* branch exits with 2.
RunOutput ==
  /\ pc = "returned"
  /\ LET success == ret = "True" /\ output_content # None
         write_success == env.writable
     IN  /\ file' = IF success /\ env.output_path /\ write_success
                      THEN output_content ELSE file
         /\ stdout' = IF success /\ ~env.output_path
                        THEN output_content ELSE stdout
         /\ exitcode' = IF ret = "raised" THEN 2
                         ELSE IF success /\ (env.output_path => write_success)
                           THEN 0
                         ELSE 1
  /\ pc' = "exited"
  /\ UNCHANGED <<blocks, raw, cleaned, recleaned, parsed, review, env, ret>>
  /\ UNCHANGED fsVars

NextPipeline ==
  \/ ParseArgsExit
  \/ ReadPaper
  \/ QueryLLM
  \/ CleanStep
  \/ ParseCleaned
  \/ OutputReview
  \/ CoreReturn
  \/ CoreRaise
  \/ RunOutput

SpecPipeline == InitPipeline /\ [][NextPipeline]_vars

\* ------------------------------------------------------------------------
\* utils.py: read_text_file and write_text_file
\* ------------------------------------------------------------------------

\* File content is a sequence of bytes: the ASCII characters stand for
\* their own byte, "xE9" is the byte 0xE9.
CR == "\r"

AsciiChars == {"a", NL, CR}

\* The characters of the generated contents: ASCII, one character of
\* Latin-1 beyond ASCII (U+E9, e acute), one character beyond Latin-1
\* (U+4F60).
Chars == AsciiChars \cup {"U+E9", "U+4F60"}

Encodings == {"utf-8", "latin-1", "ascii"}

\* The codec can encode character c.
Encodable(c, enc) ==
  \/ c \in AsciiChars
  \/ c = "U+E9" /\ enc \in {"utf-8", "latin-1"}
  \/ c = "U+4F60" /\ enc = "utf-8"

\* The bytes of the encodable character c.
EncodeChar(c, enc) ==
  CASE c \in AsciiChars -> <<c>>
    [] c = "U+E9" /\ enc = "utf-8" -> <<"xC3", "xA9">>
    [] c = "U+E9" /\ enc = "latin-1" -> <<"xE9">>
    [] c = "U+4F60" -> <<"xE4", "xBD", "xA0">>

\* str.encode of a text whose characters are all encodable.
RECURSIVE Encode(_, _)
Encode(text, enc) ==
  IF Len(text) = 0 THEN <<>>
  ELSE EncodeChar(Head(text), enc) \o Encode(Tail(text), enc)

\* The result of a decoding that raised UnicodeDecodeError.
Undecodable == <<"<UnicodeDecodeError>">>

\* UTF-8 continuation bytes among the bytes above.
ContBytes == {"xA9", "xBD", "xA0"}

\* The Latin-1 character of one byte.
Latin1Char(b) ==
  CASE b \in AsciiChars -> b
    [] b = "xE9" -> "U+E9"
    [] b = "xC3" -> "U+C3"
    [] b = "xA9" -> "U+A9"
    [] b = "xE4" -> "U+E4"
    [] b = "xBD" -> "U+BD"
    [] b = "xA0" -> "U+A0"

\* bytes.decode: the text, or Undecodable.  UTF-8: 0xC3 leads a sequence of
\* two bytes, 0xE4 and 0xE9 lead one of three; a lead byte without its
\* continuation bytes and a stray continuation byte are errors.
RECURSIVE Decode(_, _)
Decode(bytes, enc) ==
  IF Len(bytes) = 0 THEN <<>>
  ELSE
    LET b == Head(bytes)
        n == IF enc # "utf-8" \/ b \in AsciiChars THEN 1
             ELSE IF b = "xC3" THEN 2
             ELSE IF b \in {"xE4", "xE9"} THEN 3
             ELSE 0
        valid ==
          /\ n >= 1
          /\ n <= Len(bytes)
          /\ \A k \in 2..n : bytes[k] \in ContBytes
          /\ enc = "ascii" => b \in AsciiChars
        c == IF enc = "latin-1" THEN Latin1Char(b)
             ELSE IF n = 1 THEN b
             ELSE IF SubSeq(bytes, 1, n) = <<"xC3", "xA9">> THEN "U+E9"
             ELSE IF SubSeq(bytes, 1, n) = <<"xE4", "xBD", "xA0">> THEN "U+4F60"
             ELSE "other"
        rest == IF valid THEN Decode(SubSeq(bytes, n + 1, Len(bytes)), enc)
                ELSE Undecodable
    IN  IF ~valid \/ rest = Undecodable THEN Undecodable
        ELSE <<c>> \o rest

\* Text mode on writing (newline=None): every "\n" becomes os.linesep.
RECURSIVE WriteNewlines(_, _)
WriteNewlines(text, linesep) ==
  IF Len(text) = 0 THEN <<>>
  ELSE (IF Head(text) = NL THEN linesep ELSE <<Head(text)>>)
         \o WriteNewlines(Tail(text), linesep)

\* Text mode on reading (newline=None): "\r\n" and "\r" become "\n".
RECURSIVE ReadNewlines(_)
ReadNewlines(text) ==
  IF Len(text) = 0 THEN <<>>
  ELSE IF Head(text) = CR /\ Len(text) >= 2 /\ text[2] = NL
    THEN <<NL>> \o ReadNewlines(SubSeq(text, 3, Len(text)))
  ELSE IF Head(text) = CR THEN <<NL>> \o ReadNewlines(Tail(text))
  ELSE <<Head(text)>> \o ReadNewlines(Tail(text))

\* There is no file at the path.
NoFile == <<"<NoFile>">>

\* Mutant of write_text_file: the parent directories are not created.
write_text_file_nomkdir(f, content, encoding) ==
  IF f.path = "bare" \/ ~f.parent \/ ~f.writable
    THEN [fs |-> f, result |-> FALSE]
  ELSE IF \E i \in 1..Len(content) : ~Encodable(content[i], encoding)
    THEN [fs |-> [f EXCEPT !.data = <<>>], result |-> FALSE]
  ELSE [fs |-> [f EXCEPT !.data =
                  Encode(WriteNewlines(content, f.linesep), encoding)],
        result |-> TRUE]

\* write_text_file(file_path, content, encoding) on file system f: the file
\* system it leaves and its return value.  os.makedirs raises on the empty
\* dirname of a bare file name and when the directory cannot be created;
\* open truncates the file; f.write raises when a character cannot be
\* encoded; every exception is caught and False returned.
write_text_file(f, content, encoding) ==
  IF f.path = "bare" \/ (~f.parent /\ ~f.writable)
    THEN [fs |-> f, result |-> FALSE]
  ELSE IF ~f.writable
    THEN [fs |-> f, result |-> FALSE]
  ELSE IF \E i \in 1..Len(content) : ~Encodable(content[i], encoding)
    THEN [fs |-> [f EXCEPT !.parent = TRUE, !.data = <<>>],
          result |-> FALSE]
  ELSE [fs |-> [f EXCEPT !.parent = TRUE,
                         !.data = Encode(WriteNewlines(content, f.linesep),
                                         encoding)],
        result |-> TRUE]

\* Mutant of read_text_file: bytes that cannot be decoded are dropped
\* (errors="ignore") instead of the read failing.
read_text_file_lenient(f, encoding) ==
  IF f.data = NoFile THEN None
  ELSE LET ok == {n \in 0..Len(f.data) :
                    Decode(SubSeq(f.data, 1, n), encoding) # Undecodable}
       IN  ReadNewlines(Decode(SubSeq(f.data, 1, Max(ok)), encoding))

\* read_text_file(file_path, encoding) on file system f: the content, or
\* None when open raises FileNotFoundError or f.read UnicodeDecodeError.
read_text_file(f, encoding) ==
  IF f.data = NoFile THEN None
  ELSE IF Decode(f.data, encoding) = Undecodable THEN None
  ELSE ReadNewlines(Decode(f.data, encoding))

\* ------------------------------------------------------------------------
\* SpecFile: write_text_file and read_text_file on one path
\* ------------------------------------------------------------------------

\* The most characters of one generated content.
MaxContent == 2

\* What the file at the path may hold before the calls: nothing, or a short
\* text written earlier in some encoding.
OldData ==
  {NoFile} \cup
    UNION { {Encode(t, enc) :
               t \in {u \in SeqsUpTo(Chars, 1) :
                        \A i \in 1..Len(u) : Encodable(u[i], enc)}} :
            enc \in Encodings }

\* path: a bare file name ("bare", the parent is the working directory) or
\* a path with directories ("nested"); parent: the parent directory
\* exists; writable: directories and files can be created and written
\* there; data: the bytes of the file, or NoFile; linesep: os.linesep.
FileSystems ==
  { f \in [path : {"bare", "nested"}, parent : BOOLEAN, writable : BOOLEAN,
           data : OldData, linesep : {<<NL>>, <<CR, NL>>}] :
      /\ f.path = "bare" => f.parent
      /\ ~f.parent => f.data = NoFile }

InitFile ==
  /\ fs \in FileSystems
  /\ \E content \in SeqsUpTo(Chars, MaxContent), encoding \in Encodings :
       io = [call |-> "file", content |-> content, encoding |-> encoding,
             before |-> fs, wrote |-> "none", got |-> <<"<none>">>]
  /\ pc = "file"
  /\ blocks = <<>>
  /\ raw = None
  /\ cleaned = None
  /\ recleaned = None
  /\ parsed = NotParsed
  /\ review = EmptyData
  /\ env = NoEnv
  /\ stdout = None
  /\ file = None
  /\ ret = "none"
  /\ exitcode = -1

\* success = utils.write_text_file(path, content, encoding)
WriteFile ==
  /\ pc = "file"
  /\ LET w == write_text_file(fs, io.content, io.encoding)
     IN  /\ fs' = w.fs
         /\ io' = [io EXCEPT !.wrote = IF w.result THEN "True" ELSE "False"]
  /\ pc' = "written"
  /\ UNCHANGED <<blocks, raw, cleaned, recleaned, parsed, review, env, stdout,
                 file, ret, exitcode>>

\* content = utils.read_text_file(path, encoding), of a file that was there
\* before or right after the write
ReadFile ==
  /\ pc \in {"file", "written"}
  /\ io' = [io EXCEPT !.got = read_text_file(fs, io.encoding)]
  /\ pc' = "read"
  /\ UNCHANGED <<blocks, raw, cleaned, recleaned, parsed, review, env, stdout,
                 file, ret, exitcode, fs>>

NextFile == WriteFile \/ ReadFile

SpecFile == InitFile /\ [][NextFile]_vars

\* ------------------------------------------------------------------------
\* Vocabulary of the properties
\* ------------------------------------------------------------------------

\* m occurs in s as a substring.
Contains(s, m) == \E p \in 1..(Len(s) + 1) : StartsAt(s, p, m)

\* Some line of s is, after trimming, exactly the header m (m holds no
\* newline): m occurs with nothing but spaces between it and both ends of
\* its line.
HasHeaderLine(s, m) ==
  \E a \in 1..Len(s) :
    /\ StartsAt(s, a, m)
    /\ \A k \in 1..(a - 1) :
         (\A x \in k..(a - 1) : s[x] # NL) => s[k] = SP
    /\ \A k \in (a + Len(m))..Len(s) :
         (\A x \in (a + Len(m))..k : s[x] # NL) => s[k] = SP

\* t is s with leading and trailing whitespace removed and nothing else
\* changed.
IsTrimOf(t, s) ==
  \E i \in 0..(Len(s) - Len(t)) :
    /\ t = Slice(s, i + 1, i + Len(t))
    /\ \A k \in 1..i : IsSpace(s[k])
    /\ \A k \in (i + Len(t) + 1)..Len(s) : IsSpace(s[k])
    /\ t = <<>> \/ (~IsSpace(t[1]) /\ ~IsSpace(t[Len(t)]))

\* t is not empty and has no leading and no trailing whitespace.
IsTrimmedText(t) == t # <<>> /\ ~IsSpace(t[1]) /\ ~IsSpace(t[Len(t)])

\* The symbols of s.
Symbols(s) == {s[i] : i \in 1..Len(s)}

\* Section key of the canonical header a chunk starts with.
ChunkKey(id) ==
  CASE id = "Sum" -> "summary"
    [] id = "Str" -> "strengths"
    [] id = "Weak" -> "weaknesses"
    [] id \in {"Rec", "RecE", "RecV"} -> "recommendation"
    [] OTHER -> NoKey

\* The chunk ends with a newline, so what follows it starts a line.
EndsLine(id) == Chunk(id)[Len(Chunk(id))] = NL

\* ------------------------------------------------------------------------
\* Claims about parse_review_text (SpecParse)
\* ------------------------------------------------------------------------

\* C1: whenever parse_review_text returns a record, all four fields
\* summary, strengths, weaknesses and recommendation are non-empty after
\* trimming.
C1_SuccessHasAllFour ==
  (pc = "parsed" /\ parsed.ok)
    => \A k \in Keys : Strip(parsed.sections[k]) # <<>>

\* Which section a content word of the generated chunks was written under.
WordOwner(a) ==
  CASE a = "foo" -> "summary"
    [] a = "bar" -> "strengths"
    [] a = "baz" -> "weaknesses"
    [] a = "Accept" -> "recommendation"
    [] OTHER -> NoKey

\* Some loose line "Sure" follows a canonical header chunk of section k with
\* nothing but loose and blank lines in between.
LooseLineUnder(k) ==
  \E i \in 1..Len(blocks) : \E j \in 1..(i - 1) :
    /\ blocks[i] = "Line"
    /\ ChunkKey(blocks[j]) = k
    /\ \A m \in (j + 1)..(i - 1) : blocks[m] \in {"Line", "Blank"}

\* C8: content is attributed to a section only when the most recent header
\* before it is that section's canonical header: the content of the unknown
\* "## Discussion" section is in no section, the content written under a
\* canonical header is in no other section, and a loose line is in a section
\* only when it follows that section's header (so never when it comes before
\* the first known header or after an unknown one).
C8_ContentOnlyUnderOwnHeader ==
  pc = "parsed" =>
    \A k \in Keys : \A a \in Symbols(parsed.sections[k]) :
      /\ a # "qux"
      /\ a \in {"foo", "bar", "baz", "Accept"} => WordOwner(a) = k
      /\ a = "Sure" => LooseLineUnder(k)

\* C8 witness: a loose line, then Strengths, an unknown Discussion section
\* and Weaknesses; both neighbours keep exactly their own content.
C8_Witness ==
  /\ pc = "parsed"
  /\ blocks = <<"Line", "Str", "Disc", "Weak">>
  /\ parsed.sections["strengths"] = <<"bar">>
  /\ parsed.sections["weaknesses"] = <<"baz">>
  /\ parsed.sections["summary"] = <<>>

\* C9: when parse fails because sections are empty, the failure names every
\* missing or empty section key.
C9_FailureNamesEveryEmptyKey ==
  (pc = "parsed" /\ parsed.err = "MissingSection")
    => parsed.named = {k \in Keys : parsed.sections[k] = <<>>}

\* C10: a text in which no Recommendation header line occurs is never
\* parsed into a record.
C10_NoRecommendationHeaderFails ==
  (pc = "parsed" /\ ~HasHeaderLine(raw, REVIEW_SECTION_RECOMMENDATION))
    => ~parsed.ok

\* C10 witness: Summary, Strengths and Weaknesses present with content, no
\* Recommendation header, and the parse failed.
C10_Witness ==
  /\ pc = "parsed"
  /\ ~HasHeaderLine(raw, REVIEW_SECTION_RECOMMENDATION)
  /\ \A k \in {"summary", "strengths", "weaknesses"} :
       parsed.sections[k] # <<>>
  /\ ~parsed.ok

\* The text handed to parse_review_text: the cleaned text in a run that
\* cleans first, the input text otherwise.
ParserInput == IF cleaned # None THEN cleaned ELSE raw

\* s is empty or nothing but whitespace.
AllSpace(s) == \A i \in 1..Len(s) : IsSpace(s[i])

\* C17: for input that is empty or nothing but whitespace, parse_review_text
\* fails at once, with the empty-input error and without any segmentation;
\* so such a text never becomes a structured review.
C17_BlankInputFailsAtOnce ==
  (parsed # NotParsed /\ AllSpace(ParserInput))
    => /\ ~parsed.ok
       /\ parsed.err = "EmptyInput"
       /\ parsed.named = {}
       /\ parsed.sections = EmptyData

\* C17 witness: a text of blank lines was handed to the parser.
C17_Witness ==
  /\ pc = "parsed"
  /\ blocks = <<"Blank", "Blank">>
  /\ AllSpace(ParserInput)
  /\ parsed.err = "EmptyInput"

\* The content word of the chunks that hold a canonical header on a line of
\* its own followed by a line of content ("none" for the other chunks).
ChunkWord(id) ==
  CASE id = "Sum" -> "foo"
    [] id = "Str" -> "bar"
    [] id = "Weak" -> "baz"
    [] id = "Rec" -> "Accept"
    [] OTHER -> "none"

\* C21: every line that is, after trimming, exactly a canonical header
\* switches the current section to that header whatever the preceding line
\* is (a preceding line that is a bare "##" included), so the content after
\* it is attributed to that section.
C21_HeaderLineAlwaysSwitches ==
  pc = "parsed" =>
    \A j \in 1..Len(blocks) :
      ChunkWord(blocks[j]) # "none"
        => ChunkWord(blocks[j])
             \in Symbols(parsed.sections[ChunkKey(blocks[j])])

\* Chunk j holds a canonical header of section k on a line of its own.
HeaderOccurrence(k, j) == ChunkKey(blocks[j]) = k

\* The content block that follows the header of chunk j: the rest of the
\* chunk and the loose and blank lines after it, up to the next line that
\* starts with "##".
BlockAfter(j) ==
  LET stops == {m \in (j + 1)..Len(blocks) : blocks[m] \notin {"Line", "Blank"}}
      e == IF stops = {} THEN Len(blocks) ELSE Min(stops) - 1
  IN  Slice(Chunk(blocks[j]), Len(REVIEW_SECTION_SUMMARY) + 2,
            Len(Chunk(blocks[j])))
        \o Render(SubSeq(blocks, j + 1, e))

\* The trimmed content blocks of section k from chunk j on, in input order.
RECURSIVE BlocksOf(_, _)
BlocksOf(k, j) ==
  IF j > Len(blocks) THEN <<>>
  ELSE (IF HeaderOccurrence(k, j) THEN <<Strip(BlockAfter(j))>> ELSE <<>>)
         \o BlocksOf(k, j + 1)

\* "\n".join(strs)
RECURSIVE JoinNL(_)
JoinNL(strs) ==
  IF Len(strs) = 0 THEN <<>>
  ELSE IF Len(strs) = 1 THEN strs[1]
  ELSE strs[1] \o <<NL>> \o JoinNL(Tail(strs))

\* C22: when a canonical header occurs more than once in the input, the
\* section holds the content blocks that follow each of its occurrences, all
\* of them and in input order, each block trimmed and the blocks separated
\* by a single newline (the value as a whole is stored trimmed); nothing
\* collected earlier is overwritten or discarded.
C22_RepeatedHeaderAppends ==
  pc = "parsed" =>
    \A k \in Keys :
      Cardinality({j \in 1..Len(blocks) : HeaderOccurrence(k, j)}) >= 2
        => StartsAt(parsed.sections[k], 1, Strip(JoinNL(BlocksOf(k, 1))))

\* ------------------------------------------------------------------------
\* Claims about clean_llm_output, alone and followed by the parser
\* (SpecClean)
\* ------------------------------------------------------------------------

\* C2: raw text without the substring "## Summary" never ends in a
\* structured record after clean and parse.
C2_NoSummaryNeverParses ==
  (pc = "parsed" /\ ~Contains(raw, REVIEW_SECTION_SUMMARY)) => ~parsed.ok

\* C3: without the Summary marker in the raw input, clean_llm_output
\* returns the raw input with leading and trailing whitespace removed and
\* nothing else changed.
C3_NoMarkerReturnsTrimmedRaw ==
  (pc # "raw" /\ ~Contains(raw, REVIEW_SECTION_SUMMARY))
    => IsTrimOf(cleaned, raw)

\* C3 witness: no Summary marker, whitespace at both ends of the raw input,
\* noise and a Recommendation header inside it.
C3_Witness ==
  /\ pc = "cleaned"
  /\ ~Contains(raw, REVIEW_SECTION_SUMMARY)
  /\ Len(raw) >= 3
  /\ IsSpace(raw[1])
  /\ IsSpace(raw[Len(raw)])
  /\ "<think>" \in Symbols(cleaned)
  /\ Contains(cleaned, REVIEW_SECTION_RECOMMENDATION)

\* No noise-boundary pattern of either list occurs in x after its leading
\* Summary marker.
NoNoise(x) ==
  \A p \in (Len(REVIEW_SECTION_SUMMARY) + 1)..Len(x) :
    \A pat \in end_markers \cup fallback_end_markers : ~PatMatchAt(x, p, pat)

\* C6: cleaning is idempotent on input that starts with the Summary marker
\* and contains no noise-boundary pattern.
C6_CleanIdempotent ==
  (pc = "recleaned" /\ StartsAt(raw, 1, REVIEW_SECTION_SUMMARY)
     /\ NoNoise(raw))
    => recleaned = cleaned

\* C6 witness: such an input that the first cleaning really shortened (a
\* header after the Recommendation section was cut off).
C6_Witness ==
  /\ pc = "recleaned"
  /\ StartsAt(raw, 1, REVIEW_SECTION_SUMMARY)
  /\ NoNoise(raw)
  /\ Contains(raw, REVIEW_SECTION_RECOMMENDATION)
  /\ Len(cleaned) < Len(Strip(raw))
  /\ recleaned = cleaned

\* Chunk j comes right after a line that is a bare "##" (blank lines may lie
\* between): the parser reads that line and the header of chunk j as one
\* header.
AfterBareHashes(j) ==
  \E h \in 1..(j - 1) :
    /\ blocks[h] = "Hash"
    /\ \A m \in (h + 1)..(j - 1) : blocks[m] = "NL"

\* The raw output is a preamble without a Summary chunk, then a review from
\* chunk i (Summary) to chunk j (the first Recommendation header after it,
\* on a line of its own that does not follow a bare "##" line, followed by
\* its value), then a noise boundary: a think tag, or a new line starting
\* with "Note:" or with a "## " header.
NoisyReview(i, j) ==
  /\ i < j
  /\ j < Len(blocks)
  /\ blocks[i] = "Sum"
  /\ \A m \in 1..(i - 1) : blocks[m] # "Sum"
  /\ blocks[j] = "RecV"
  /\ \A m \in (i + 1)..(j - 1) : blocks[m] # "RecV"
  /\ EndsLine(blocks[j - 1])
  /\ ~AfterBareHashes(j)
  /\ \/ blocks[j + 1] = "Think"
     \/ /\ blocks[j + 1] = "NL"
        /\ j + 2 <= Len(blocks)
        /\ blocks[j + 2] \in {"Note", "Body", "Sum", "RecV"}

FromSummary ==
  Slice(raw, Max({1, Find(raw, REVIEW_SECTION_SUMMARY)}), Len(raw))

\* The Summary marker occurs in the raw output and the Recommendation
\* marker occurs after it.
RecommendationFound ==
  /\ Contains(raw, REVIEW_SECTION_SUMMARY)
  /\ Contains(FromSummary, REVIEW_SECTION_RECOMMENDATION)

\* Some pattern of pats matches x with its match starting at position p.
BoundaryAt(x, p, pats) == \E pat \in pats : PatMatchAt(x, p, pat)

\* t is x cut immediately before its first boundary of pats at or after
\* position from (x as a whole when there is none), and then trimmed.
CutAtFirstBoundary(t, x, from, pats) ==
  LET boundaries == {p \in from..Len(x) : BoundaryAt(x, p, pats)}
      e == IF boundaries = {} THEN Len(x) ELSE Min(boundaries) - 1
  IN  IsTrimOf(t, Slice(x, 1, e))

\* C13: when the Recommendation marker is found after the Summary marker,
\* the result is the text from the Summary marker cut immediately before the
\* first match, after the Recommendation marker, of a new "## " header line
\* or of any noise-boundary pattern of the no-Recommendation scan (the
\* line-start "Summary:" included), and trimmed; without a match the text
\* is kept through the end of the input.
C13_CutAfterRecommendation ==
  (pc # "raw" /\ RecommendationFound)
    => CutAtFirstBoundary(
         cleaned, FromSummary,
         Find(FromSummary, REVIEW_SECTION_RECOMMENDATION)
           + Len(REVIEW_SECTION_RECOMMENDATION),
         {next_section_marker} \cup end_markers)

\* t is a contiguous part of s (the empty text included).
IsPartOf(t, s) ==
  \E i \in 1..(Len(s) + 1 - Len(t)) : t = Slice(s, i, i + Len(t) - 1)

\* C16: clean_llm_output returns text for every input, the empty string and
\* every combination of missing, repeated and misordered markers included:
\* the result is never missing, and it is a trimmed contiguous part of the
\* input.
C16_CleanAlwaysReturnsText ==
  pc # "raw" =>
    /\ cleaned # None
    /\ IsPartOf(cleaned, raw)
    /\ cleaned = <<>> \/ IsTrimmedText(cleaned)

\* C16 witness: the Recommendation marker before a repeated Summary marker,
\* and nothing but the second Summary section left.
C16_Witness ==
  /\ pc = "cleaned"
  /\ blocks = <<"RecV", "NL", "Sum", "Sum">>
  /\ cleaned = Strip(Chunk("Sum"))

\* ------------------------------------------------------------------------
\* Claims about the markers of clean_llm_output (SpecMark)
\* ------------------------------------------------------------------------

\* C23: for every input clean_llm_output returns a contiguous part of the
\* input without leading or trailing whitespace; when the input contains
\* the Summary marker the result begins with that marker, taken at its
\* first occurrence, and keeps nothing of what is before it.
C23_TrimmedPartFromFirstSummary ==
  pc # "raw" =>
    /\ IsPartOf(cleaned, raw)
    /\ cleaned = <<>> \/ IsTrimmedText(cleaned)
    /\ Contains(raw, REVIEW_SECTION_SUMMARY) =>
         /\ StartsAt(cleaned, 1, REVIEW_SECTION_SUMMARY)
         /\ StartsAt(FromSummary, 1, cleaned)

\* C23 witness: a preamble and two Summary markers; the result starts at
\* the first one and runs through the second to the recommendation.
C23_Witness ==
  /\ pc = "cleaned"
  /\ blocks = <<"Pre", "Sum", "Sum", "RecV">>
  /\ cleaned = Render(<<"Sum", "Sum", "RecV">>)

\* C14: when the Summary marker is present and no Recommendation marker
\* follows it, the result is the text from the first Summary marker up to
\* the first noise-boundary match after that marker, trimmed, and the whole
\* remainder, trimmed, when no noise boundary matches.
C14_CutAtFirstNoise ==
  (pc # "raw" /\ Contains(raw, REVIEW_SECTION_SUMMARY)
     /\ ~RecommendationFound)
    => CutAtFirstBoundary(cleaned, FromSummary,
                          Len(REVIEW_SECTION_SUMMARY) + 1, end_markers)

\* C14 witness: a preamble, Summary, Strengths and Weaknesses, then a line
\* starting with "Note:"; the result ends with the Weaknesses content.
C14_Witness ==
  /\ pc = "cleaned"
  /\ blocks = <<"Pre", "Sum", "Body", "Note">>
  /\ ~RecommendationFound
  /\ cleaned = Strip(Render(<<"Sum", "Body">>))

\* The raw output from its first Summary marker through the end of the
\* first Recommendation marker after it.
SummaryThroughRecommendation ==
  Slice(FromSummary, 1,
        Find(FromSummary, REVIEW_SECTION_RECOMMENDATION)
          + Len(REVIEW_SECTION_RECOMMENDATION) - 1)

\* C24: when a Recommendation marker follows the Summary marker, the text
\* from the first Summary marker through the end of the first following
\* Recommendation marker is a prefix of the result, unchanged whatever noise
\* boundaries and extra headers it holds, and neither warning of the final
\* sanity check is logged.
C24_SummaryThroughRecommendationKept ==
  (pc # "raw" /\ RecommendationFound)
    => /\ StartsAt(cleaned, 1, SummaryThroughRecommendation)
       /\ sanity_check(cleaned) = "none"

\* C24 witness: a think tag and two extra headers between the Summary and
\* the Recommendation marker, all kept.
C24_Witness ==
  /\ pc = "cleaned"
  /\ blocks = <<"Sum", "Think", "Body", "RecV">>
  /\ RecommendationFound
  /\ cleaned = raw

\* ------------------------------------------------------------------------
\* Claims about the callers (SpecPipeline)
\* ------------------------------------------------------------------------

\* The run is over.
Finished == pc \in {"done", "exited"}

\* The parser ran on the cleaned text and returned None.
ParseFailed == parsed.err \in {"EmptyInput", "MissingSection"}

Queried ==
  /\ env.paper
  /\ pc \notin {"start", "read"}
  /\ env.args = "review"
  /\ ret # "raised"

\* The LLM client has no output: the request failed, the response is
\* malformed, or its text is empty or all whitespace.
NoLLMOutput == env.llm # "ok" \/ Strip(Render(blocks)) = <<>>

\* generate_review returned failure, neither clean_llm_output nor
\* parse_review_text ran, and no review went to the console or to a file.
FailedBeforeCleaning ==
  /\ ret = "False"
  /\ cleaned = None
  /\ parsed = NotParsed
  /\ stdout = None
  /\ file = None

RoundTripDone == pc = "parsed" /\ review # EmptyData

\* C5 as stated: for every review whose four fields are non-empty and whose
\* recommendation is an allowed value, parsing the formatted text succeeds
\* and returns the review field by field.
C5_RoundTripAnyNonEmpty ==
  (RoundTripDone /\ \A k \in Keys : review[k] # <<>>)
    => (parsed.ok /\ parsed.sections = review)

\* f has no leading and no trailing whitespace and is not empty.
IsTrimmed(f) == f # <<>> /\ ~IsSpace(f[1]) /\ ~IsSpace(f[Len(f)])

\* Some line of f begins, after optional spaces, with "##" followed by
\* whitespace or by the end of f.
HasHashLine(f) ==
  \E p \in 1..(Len(f) - 1) :
    /\ f[p] = "#"
    /\ f[p + 1] = "#"
    /\ p + 2 > Len(f) \/ IsSpace(f[p + 2])
    /\ \A k \in 1..(p - 1) : (\A x \in k..(p - 1) : f[x] # NL) => f[k] = SP

\* C5 amended: the round trip holds for every review whose recommendation
\* is an allowed value and whose other fields are non-empty, without
\* leading or trailing whitespace and without a line that begins with "##"
\* followed by whitespace or by the end of the field.
C5_RoundTripCleanFields ==
  (RoundTripDone
     /\ \A k \in ContentKeys : IsTrimmed(review[k]) /\ ~HasHashLine(review[k]))
    => (parsed.ok /\ parsed.sections = review)

\* C5 witness: a multi-line summary with inner "##" that is not a header
\* line went through the round trip unchanged.
C5_Witness ==
  /\ RoundTripDone
  /\ \A k \in ContentKeys : IsTrimmed(review[k]) /\ ~HasHashLine(review[k])
  /\ review["summary"] = <<"foo", NL, "foo">>
  /\ parsed.ok
  /\ parsed.sections = review

\* ------------------------------------------------------------------------
\* Claims about the recommendation (SpecRec)
\* ------------------------------------------------------------------------

\* The text written under the Recommendation header.
RecText == Render(blocks)

\* C11: on every successful parse the stored recommendation is the text
\* under the Recommendation header with only its leading and trailing
\* whitespace removed (no case folding, no punctuation stripping, no
\* canonical value), and every such text that is not all whitespace parses
\* successfully, allowed value or not.
C11_RecommendationStoredTrimmedOnly ==
  pc = "parsed" =>
    /\ parsed.ok => IsTrimOf(parsed.sections["recommendation"], RecText)
    /\ (\E i \in 1..Len(RecText) : ~IsSpace(RecText[i])) => parsed.ok

\* C11 witness: "Probably Accept." between blank space parsed, with the
\* warning, and was stored with its case and punctuation.
C11_Witness ==
  /\ pc = "parsed"
  /\ blocks = <<"vProb", "SP", "vAccept", "Dot">>
  /\ parsed.ok
  /\ parsed.warn
  /\ parsed.sections["recommendation"] = <<"Probably", SP, "Accept", ".">>

\* str.rstrip(chars): remove trailing symbols that are in chars.
RStripChars(s, chars) ==
  LET keep == {i \in 1..Len(s) : s[i] \notin chars}
  IN  IF keep = {} THEN <<>> ELSE SubSeq(s, 1, Max(keep))

\* C12: the invalid-recommendation warning is emitted exactly when the
\* trimmed recommendation text, with only trailing '.', '?', '!' and spaces
\* stripped and lower-cased, is not one of the allowed values; leading
\* punctuation makes the text invalid.
C12_WarnIffNotAllowedAfterTrailingStrip ==
  pc = "parsed" =>
    (parsed.warn <=>
       RStripChars(LowerStr(Strip(RecText)), {".", "?", "!", SP})
         \notin {LowerStr(opt) : opt \in REVIEW_RECOMMENDATION_OPTIONS})

\* ------------------------------------------------------------------------
\* Claims about the layout of format_review_dict_to_text (SpecRound)
\* ------------------------------------------------------------------------

\* One section as the claim lays it out: the header line, immediately
\* followed by the trimmed content of field k.
SectionText(header, k) == header \o <<NL>> \o Strip(review[k])

\* C18: the formatted text is the four canonical headers, once each and in
\* the order Summary, Strengths, Weaknesses, Recommendation, each header
\* immediately followed by its trimmed field content, and the four
\* header+content pairs separated by a blank line (for a review whose four
\* fields hold text).
C18_HeaderThenContentLayout ==
  (pc = "text" /\ \A k \in Keys : Strip(review[k]) # <<>>)
    => raw = JoinBlank(<< SectionText(REVIEW_SECTION_SUMMARY, "summary"),
                          SectionText(REVIEW_SECTION_STRENGTHS, "strengths"),
                          SectionText(REVIEW_SECTION_WEAKNESSES, "weaknesses"),
                          SectionText(REVIEW_SECTION_RECOMMENDATION,
                                      "recommendation") >>)

\* ------------------------------------------------------------------------
\* Claims about read_text_file and write_text_file (SpecFile)
\* ------------------------------------------------------------------------

\* write_text_file has returned and read_text_file has then read the path.
ReadBack == pc = "read" /\ io.wrote # "none"

\* The write was asked to put an encodable content at a path whose parent
\* directories do not exist but can be created.
WriteIntoNewDirs ==
  /\ io.wrote # "none"
  /\ io.before.path = "nested"
  /\ ~io.before.parent
  /\ io.before.writable
  /\ \A i \in 1..Len(io.content) : Encodable(io.content[i], io.encoding)

\* C19 as stated: after write_text_file returned True, read_text_file with
\* the same encoding returns exactly the content, whatever the content; a
\* write into directories that do not exist creates them and succeeds.
C19_ReadReturnsWhatWasWritten ==
  /\ (ReadBack /\ io.wrote = "True") => io.got = io.content
  /\ WriteIntoNewDirs => (io.wrote = "True" /\ fs.parent)

\* C19 amended: the same for every content without a carriage return.
C19_ReadReturnsWrittenWithoutCR ==
  /\ (ReadBack /\ io.wrote = "True" /\ CR \notin Symbols(io.content))
       => io.got = io.content
  /\ WriteIntoNewDirs => (io.wrote = "True" /\ fs.parent)

\* C19 witness: two lines with a non-ASCII character went, in Latin-1, to a
\* path whose directories did not exist, on a platform whose line separator
\* is "\r\n", and came back unchanged.
C19_Witness ==
  /\ ReadBack
  /\ WriteIntoNewDirs
  /\ io.wrote = "True"
  /\ io.content = <<"U+E9", NL>>
  /\ io.encoding = "latin-1"
  /\ fs.linesep = <<CR, NL>>
  /\ io.got = io.content

\* The bytes of character c in an encoding (empty when it has none among
\* the bytes of the model).
BytesOf(c, enc) ==
  CASE c \in AsciiChars -> <<c>>
    [] c = "U+E9" /\ enc = "utf-8" -> <<"xC3", "xA9">>
    [] c = "U+E9" /\ enc = "latin-1" -> <<"xE9">>
    [] c = "U+4F60" /\ enc = "utf-8" -> <<"xE4", "xBD", "xA0">>
    [] c = "U+C3" /\ enc = "latin-1" -> <<"xC3">>
    [] c = "U+A9" /\ enc = "latin-1" -> <<"xA9">>
    [] c = "U+E4" /\ enc = "latin-1" -> <<"xE4">>
    [] c = "U+BD" /\ enc = "latin-1" -> <<"xBD">>
    [] c = "U+A0" /\ enc = "latin-1" -> <<"xA0">>
    [] OTHER -> <<>>

RECURSIVE BytesOfText(_, _)
BytesOfText(text, enc) ==
  IF Len(text) = 0 THEN <<>>
  ELSE BytesOf(Head(text), enc) \o BytesOfText(Tail(text), enc)

\* Bytes no text has in the encoding: a byte beyond ASCII read as ASCII; read
\* as UTF-8, a first byte that is a continuation byte or a last byte that
\* leads a longer sequence.
CannotDecode(bytes, enc) ==
  \/ enc = "ascii" /\ \E i \in 1..Len(bytes) : bytes[i] \notin AsciiChars
  \/ /\ enc = "utf-8"
     /\ bytes # <<>>
     /\ \/ bytes[1] \in ContBytes
        \/ bytes[Len(bytes)] \in {"xC3", "xE4", "xE9"}

\* C20: read_text_file returns None when the file does not exist and when
\* its bytes cannot be decoded with the requested encoding; when it returns
\* a content the file exists and its bytes are the encoding of that content
\* (for a file without carriage returns, which text mode rewrites).
C20_ReadFailsWithNone ==
  pc = "read" =>
    /\ fs.data = NoFile => io.got = None
    /\ (fs.data # NoFile /\ CannotDecode(fs.data, io.encoding))
         => io.got = None
    /\ io.got # None =>
         /\ fs.data # NoFile
         /\ CR \notin Symbols(fs.data)
              => BytesOfText(io.got, io.encoding) = fs.data

\* C20 witness: a file holding the UTF-8 bytes of a character beyond ASCII
\* was read as ASCII.
C20_Witness ==
  /\ pc = "read"
  /\ io.wrote = "none"
  /\ fs.data = <<"xE4", "xBD", "xA0">>
  /\ io.encoding = "ascii"
  /\ io.got = None

\* ------------------------------------------------------------------------
\* Claims about the target path of write_text_file (SpecFile)
\* ------------------------------------------------------------------------

\* write_text_file was called with a content its encoding can encode, for a
\* path where files and directories can be created and written.
WroteToWritablePath ==
  /\ io.wrote # "none"
  /\ io.before.writable
  /\ \A i \in 1..Len(io.content) : Encodable(io.content[i], io.encoding)

\* C26: write_text_file returns True and stores the content for every
\* writable target path, a path without a directory component (a bare file
\* name in the current directory) included.
C26_WritesEveryWritablePath ==
  WroteToWritablePath
    => /\ io.wrote = "True"
       /\ fs.data = Encode(WriteNewlines(io.content, fs.linesep), io.encoding)

\* ------------------------------------------------------------------------
\* Claims about the return value of generate_review (SpecPipeline)
\* ------------------------------------------------------------------------

\* generate_review of core.py was called directly.
CoreRun == env.entry = "core"

\* A review text went to the console or into the output file.
Emitted == stdout # None \/ file # None

\* A stage before the parser yielded nothing: the paper could not be read,
\* the LLM client had no output, or the cleaned text is empty.
StageYieldedNothing ==
  \/ ~env.paper /\ pc # "start"
  \/ Queried /\ NoLLMOutput
  \/ cleaned = <<>>

CliRun == env.entry = "cli"

\* The output content the run made went to the console or into the file.
OutputDone ==
  IF env.output_path THEN file = output_content /\ file # None
  ELSE stdout = output_content /\ stdout # None

\* The exit codes of a run, as the claim gives them: 0 only after the
\* output content was printed or saved; 1 when the core reported failure,
\* when the content could not be produced in the requested format, and when
\* the file write failed; 2 only after an unexpected exception; one of the
\* three when the run has ended, none before.
ExitCodesAsClaimed ==
  /\ pc = "exited" <=> exitcode \in {0, 1, 2}
  /\ pc # "exited" => exitcode = -1
  /\ exitcode = 0 => OutputDone
  /\ (pc = "exited" /\ ret = "False") => exitcode = 1
  /\ (pc = "exited" /\ ret = "True" /\ output_content = None) => exitcode = 1
  /\ (pc = "exited" /\ ret = "True" /\ env.output_path /\ ~env.writable)
       => exitcode = 1
  /\ exitcode = 2 => ret = "raised"

====
